---- MODULE Spec2Model ----
(***************************************************************************)
(* A model of rw_tileman's deserialization engine (src/src/lingo_de.rs):   *)
(* the value parser LingoData::parse, the tile property extractor          *)
(* parse_tile_info, the category header parser parse_category_header, the  *)
(* document assembler parse_tile_init and the subfolder collector's scan.  *)
(*                                                                         *)
(* Texts are sequences of one-character strings.  A Rust panic (an         *)
(* out-of-order slice) is the outcome tagged "Panic".                      *)
(***************************************************************************)
EXTENDS Integers, Sequences, FiniteSets, TLC

VARIABLES
    pc,                     \* where the call under study is
    text, parsed,           \* LingoData::parse: its argument and what it gave
    caps, from_vanilla, tile_result,        \* parse_tile_info
    doc, pos,               \* parse_tile_init: the lines of text, those consumed
    additional_categories,  \* parse_tile_init: its argument
    current_category, categories, errored_lines,    \* parse_tile_init: its locals
    categories_clone, merged,   \* parse_tile_init: categories at lines 339 and 343
    subinit, subcolor, subpos,  \* the collector: init.txt, color.txt, lines consumed
    category, errors            \* the collector: its locals for one subfolder

vars == <<pc, text, parsed, caps, from_vanilla, tile_result, doc, pos,
          additional_categories, current_category, categories, errored_lines,
          categories_clone, merged, subinit, subcolor, subpos, category, errors>>

parseVars == <<text, parsed>>
tileVars == <<caps, from_vanilla, tile_result>>
initVars == <<doc, pos, additional_categories, current_category, categories,
              errored_lines, categories_clone, merged>>
collectVars == <<subinit, subcolor, subpos, category, errors>>

----------------------------------------------------------------------------
(* Bounds of the model.                                                    *)

\* longest raw text handed to the value parser
MaxTextLen == 3
\* longest interior of a point(...) text handed to the value parser
MaxPointLen == 2
\* most lines of an init document
MaxLines == 3

----------------------------------------------------------------------------
(* Text helpers: str::trim, starts_with, ends_with, slicing, regex split.  *)

IsSpace(c) == c = " "

RECURSIVE TrimStart(_)
TrimStart(s) ==
    IF s # <<>> /\ IsSpace(Head(s)) THEN TrimStart(Tail(s)) ELSE s

RECURSIVE TrimEnd(_)
TrimEnd(s) ==
    IF s # <<>> /\ IsSpace(s[Len(s)]) THEN TrimEnd(SubSeq(s, 1, Len(s) - 1)) ELSE s

Trim(s) == TrimEnd(TrimStart(s))

StartsWith(s, p) == Len(s) >= Len(p) /\ SubSeq(s, 1, Len(p)) = p

EndsWith(s, p) == Len(s) >= Len(p) /\ SubSeq(s, Len(s) - Len(p) + 1, Len(s)) = p

\* &s[b..e] is in order and in range; otherwise the slice expression panics
SliceOk(s, b, e) == b <= e /\ e <= Len(s)

\* &s[b..e], byte offsets counted from 0
Slice(s, b, e) == SubSeq(s, b + 1, e)

RECURSIVE RawSplitFrom(_, _, _)
RawSplitFrom(s, i, cur) ==
    IF i > Len(s) THEN <<cur>>
    ELSE IF s[i] = "," THEN <<cur>> \o RawSplitFrom(s, i + 1, <<>>)
    ELSE RawSplitFrom(s, i + 1, Append(cur, s[i]))

\* REGEX_SPLITCOMMAS.split(s): the separator \s*,\s* takes the white space on
\* both sides of each comma with it
TrimAround(raw) ==
    [k \in 1..Len(raw) |->
        IF k > 1 /\ k < Len(raw) THEN Trim(raw[k])
        ELSE IF k > 1 THEN TrimStart(raw[k])
        ELSE IF k < Len(raw) THEN TrimEnd(raw[k])
        ELSE raw[k]]

SplitCommas(s) == TrimAround(RawSplitFrom(s, 1, <<>>))

IsDigit(c) == c \in {"0", "1", "2", "3", "4", "5", "6", "7", "8", "9"}

DigitVal(c) ==
    CASE c = "0" -> 0 [] c = "1" -> 1 [] c = "2" -> 2 [] c = "3" -> 3
      [] c = "4" -> 4 [] c = "5" -> 5 [] c = "6" -> 6 [] c = "7" -> 7
      [] c = "8" -> 8 [] c = "9" -> 9

AllDigits(s) == s # <<>> /\ \A i \in 1..Len(s) : IsDigit(s[i])

I32Max == 2147483647
I32Min == (0 - I32Max) - 1
U8Max == 255

\* the checked accumulation of from_str_radix: digits are added for a positive
\* number and subtracted for a negative one, and leaving [lo, hi] is an error
RECURSIVE Accumulate(_, _, _, _, _)
Accumulate(s, acc, neg, lo, hi) ==
    IF s = <<>> THEN [ok |-> TRUE, val |-> acc]
    ELSE IF neg
    THEN IF acc >= (lo + DigitVal(Head(s)) + 9) \div 10
         THEN Accumulate(Tail(s), acc * 10 - DigitVal(Head(s)), neg, lo, hi)
         ELSE [ok |-> FALSE, val |-> 0]
    ELSE IF acc <= (hi - DigitVal(Head(s))) \div 10
         THEN Accumulate(Tail(s), acc * 10 + DigitVal(Head(s)), neg, lo, hi)
         ELSE [ok |-> FALSE, val |-> 0]

\* str::parse::<i32>: an optional sign, then digits, within the width
Digits(digits, neg, lo, hi) ==
    IF AllDigits(digits) THEN Accumulate(digits, 0, neg, lo, hi)
    ELSE [ok |-> FALSE, val |-> 0]

ParseI32(s) ==
    IF s # <<>> /\ Head(s) = "-" THEN Digits(Tail(s), TRUE, I32Min, I32Max)
    ELSE IF s # <<>> /\ Head(s) = "+" THEN Digits(Tail(s), FALSE, I32Min, I32Max)
    ELSE Digits(s, FALSE, I32Min, I32Max)

\* str::parse::<u8>: an optional +, then digits, at most 255
ParseU8(s) ==
    IF s # <<>> /\ Head(s) = "+" THEN Digits(Tail(s), FALSE, 0, U8Max)
    ELSE Digits(s, FALSE, 0, U8Max)

----------------------------------------------------------------------------
(* LingoData and LingoData::parse.                                         *)

Number(n) == [tag |-> "Number", num |-> n, str |-> <<>>, items |-> <<>>]
String(s) == [tag |-> "String", num |-> 0, str |-> s, items |-> <<>>]
Array(xs) == [tag |-> "Array", num |-> 0, str |-> <<>>, items |-> xs]
Point(xs) == [tag |-> "Point", num |-> 0, str |-> <<>>, items |-> xs]
InvalidOrNull(s) == [tag |-> "InvalidOrNull", num |-> 0, str |-> s, items |-> <<>>]
\* the call did not return: a slice expression panicked
Panic == [tag |-> "Panic", num |-> 0, str |-> <<>>, items |-> <<>>]
\* no call has been made yet
NotParsed == [tag |-> "NotParsed", num |-> 0, str |-> <<>>, items |-> <<>>]

QUOTE == "\""
POINT_OPEN == <<"p", "o", "i", "n", "t", "(">>

\* filter_map of a Result: its value, or nothing
ItemIfOk(r) == IF r.ok THEN <<r.val>> ELSE <<>>

RECURSIVE FilterMapI32(_)
FilterMapI32(pieces) ==
    IF pieces = <<>> THEN <<>>
    ELSE ItemIfOk(ParseI32(Trim(Head(pieces)))) \o FilterMapI32(Tail(pieces))

\* the collected Array; a panic inside one element's parse ends the call
ArrayOf(subs) ==
    IF \E k \in 1..Len(subs) : subs[k] = Panic THEN Panic ELSE Array(subs)

\* the last two branches: an i32, or the trimmed text as it is
NumberOr(r, t) == IF r.ok THEN Number(r.val) ELSE InvalidOrNull(t)

RECURSIVE parse(_)

\* spl.into_iter().filter_map(..): parse returns no Err, so every piece stays
ParseEach(spl) == [k \in 1..Len(spl) |-> parse(spl[k])]

\* the branches of parse on the trimmed text t of length n
ParseTrimmed(t, n) ==
    IF StartsWith(t, <<"[">>) /\ EndsWith(t, <<"]">>)
    THEN IF ~SliceOk(t, 1, n - 1) THEN Panic
         ELSE ArrayOf(ParseEach(SplitCommas(Slice(t, 1, n - 1))))
    ELSE IF StartsWith(t, POINT_OPEN) /\ EndsWith(t, <<")">>)
    THEN IF ~SliceOk(t, 6, n - 1) THEN Panic
         ELSE Point(FilterMapI32(SplitCommas(Slice(t, 6, n - 1))))
    ELSE IF StartsWith(t, <<QUOTE>>) /\ EndsWith(t, <<QUOTE>>)
    THEN IF ~SliceOk(t, 1, n - 1) THEN Panic
         ELSE String(Slice(t, 1, n - 1))
    ELSE NumberOr(ParseI32(t), t)

parse(raw) == ParseTrimmed(Trim(raw), Len(Trim(raw)))

----------------------------------------------------------------------------
(* Narrowing accessors of LingoData.                                       *)

\* a DeserError; got is the value the message prints
DataConvertFailed(what, v) ==
    [kind |-> "DataConvertFailed", key |-> "", expected |-> what, got |-> v]
TypeMismatch(k, e, v) ==
    [kind |-> "TypeMismatch", key |-> k, expected |-> e, got |-> v]
InvalidValue(v) ==
    [kind |-> "InvalidValue", key |-> "", expected |-> "", got |-> v]
Todo == [kind |-> "Todo", key |-> "", expected |-> "", got |-> NotParsed]
NoError == [kind |-> "None", key |-> "", expected |-> "", got |-> NotParsed]

Ok(v) == [ok |-> TRUE, val |-> v, err |-> NoError]
Err(e) == [ok |-> FALSE, val |-> <<>>, err |-> e]

Some(v) == [some |-> TRUE, val |-> v]
None == [some |-> FALSE, val |-> <<>>]

RECURSIVE FilterTag(_, _)
FilterTag(xs, tag) ==
    IF xs = <<>> THEN <<>>
    ELSE (IF Head(xs).tag = tag THEN <<Head(xs)>> ELSE <<>>) \o FilterTag(Tail(xs), tag)

Strs(ss) == [k \in 1..Len(ss) |-> ss[k].str]

as_string_array(v) ==
    IF v.tag = "Array" THEN Ok(Strs(FilterTag(v.items, "String")))
    ELSE Err(DataConvertFailed("StringArray", v))

Nums(ns) == [k \in 1..Len(ns) |-> ns[k].num]

as_number_array(v) ==
    IF v.tag = "Array" THEN Ok(Nums(FilterTag(v.items, "Number")))
    ELSE Err(DataConvertFailed("NumberArray", v))

\* TileCell::from_number: the cell codes the editor knows
TileCell_from_number(n) == [ok |-> n >= -1 /\ n <= 9, val |-> n]

RECURSIVE FilterCells(_)
FilterCells(ns) ==
    IF ns = <<>> THEN <<>>
    ELSE ItemIfOk(TileCell_from_number(Head(ns))) \o FilterCells(Tail(ns))

TileCellsOf(number_array, v) ==
    IF number_array.ok THEN Ok(FilterCells(number_array.val))
    ELSE Err(DataConvertFailed("tilecellArray", v))

as_tilecell_array(v) == TileCellsOf(as_number_array(v), v)

NULL_TEXT == <<"N", "U", "L", "L">>

as_null_if_zero(v) ==
    IF v.tag = "Number" /\ v.num = 0 THEN InvalidOrNull(NULL_TEXT) ELSE v

----------------------------------------------------------------------------
(* parse_tile_info.  A line is given by the captures REGEX_PROPERTIES      *)
(* finds in it, in order: pairs of a key and the raw text of its value.    *)

Keys == {"nm", "sz", "specs", "specs2", "tp", "repeatL", "bfTiles", "rnd",
         "ptPos", "tags"}

KeyChars(k) ==
    CASE k = "nm" -> <<"n", "m">>
      [] k = "sz" -> <<"s", "z">>
      [] k = "specs" -> <<"s", "p", "e", "c", "s">>
      [] k = "specs2" -> <<"s", "p", "e", "c", "s", "2">>
      [] k = "tp" -> <<"t", "p">>
      [] k = "repeatL" -> <<"r", "e", "p", "e", "a", "t", "L">>
      [] k = "bfTiles" -> <<"b", "f", "T", "i", "l", "e", "s">>
      [] k = "rnd" -> <<"r", "n", "d">>
      [] k = "ptPos" -> <<"p", "t", "P", "o", "s">>
      [] k = "tags" -> <<"t", "a", "g", "s">>

MISSING_ITEM ==
    <<"W", "A", "R", "N", "I", "N", "G", ":", " ", "M", "I", "S", "S", "I", "N",
      "G", " ", "I", "T", "E", "M", " ">>

\* map.insert for every capture: the last occurrence of a key wins
RECURSIVE PropMap(_, _)
PropMap(cs, map) ==
    IF cs = <<>> THEN map
    ELSE PropMap(Tail(cs), [map EXCEPT ![Head(cs).key] = Some(Head(cs).val)])

EmptyMap == [k \in Keys |-> None]

\* Option::unwrap_or
OptionOr(o, d) == IF o.some THEN o.val ELSE d

\* the macro get_prop!: the raw text or the placeholder, through the value parser
get_prop(map, k) == parse(OptionOr(map[k], MISSING_ITEM \o KeyChars(k)))

\* what the variant named entry carries
Payload(v) ==
    CASE v.tag = "Number" -> v.num
      [] v.tag = "String" -> v.str
      [] OTHER -> v.items

\* cast_enum! with the key and the variant name in each other's place
cast_enum_swapped(v, k, entry) ==
    IF v.tag = entry THEN Ok(Payload(v)) ELSE Err(TypeMismatch(entry, k, v))

\* the macro cast_enum!
cast_enum(v, k, entry) ==
    IF v.tag = entry THEN Ok(Payload(v)) ELSE Err(TypeMismatch(k, entry, v))

\* TileType::from_string: the tile types the editor knows
TileTypeNames == {<<"b", "o", "x">>}

TileType_from_string(s) ==
    IF s \in TileTypeNames THEN Ok(s) ELSE Err(InvalidValue(String(s)))

NoTile == [name |-> <<>>, size |-> <<>>, specs |-> <<>>, specs2 |-> None,
           tile_type |-> <<>>, repeat_layers |-> None, buffer_tiles |-> 0,
           random_vars |-> None, preview_pos |-> 0, tags |-> <<>>,
           active |-> FALSE]

TileOk(t) == [ok |-> TRUE, tile |-> t, err |-> NoError]
TileErr(e) == [ok |-> FALSE, tile |-> NoTile, err |-> e]

\* .ok() of a Result
ToOption(r) == IF r.ok THEN Some(r.val) ELSE None

\* the struct literal: its fields are evaluated in order and the first ? that
\* meets an Err returns it
\* and_then of a Result
AndThenTileType(r) == IF r.ok THEN TileType_from_string(r.val) ELSE r

TileInfoLiteral(name, size, specs, specs2, tile_type, repeat_layers, buffer_tiles, random_vars, preview_pos, tags, is_vanilla) ==
    IF ~name.ok THEN TileErr(name.err)
    ELSE IF ~size.ok THEN TileErr(size.err)
    ELSE IF ~specs.ok THEN TileErr(specs.err)
    ELSE IF ~tile_type.ok THEN TileErr(tile_type.err)
    ELSE IF ~buffer_tiles.ok THEN TileErr(buffer_tiles.err)
    ELSE IF ~preview_pos.ok THEN TileErr(preview_pos.err)
    ELSE TileOk([name |-> name.val, size |-> size.val, specs |-> specs.val,
                 specs2 |-> ToOption(specs2), tile_type |-> tile_type.val,
                 repeat_layers |-> ToOption(repeat_layers),
                 buffer_tiles |-> buffer_tiles.val,
                 random_vars |-> ToOption(random_vars),
                 preview_pos |-> preview_pos.val,
                 tags |-> IF tags.ok THEN tags.val ELSE <<>>,
                 active |-> is_vanilla])

\* the properties of the map, each through get_prop! and its narrowing; the
\* tile type is the cast tp through TileType::from_string
TileInfoOfMap(map, is_vanilla) ==
    TileInfoLiteral(
        cast_enum(get_prop(map, "nm"), "nm", "String"),
        cast_enum(get_prop(map, "sz"), "sz", "Point"),
        as_tilecell_array(get_prop(map, "specs")),
        as_tilecell_array(as_null_if_zero(get_prop(map, "specs2"))),
        AndThenTileType(cast_enum(get_prop(map, "tp"), "tp", "String")),
        as_number_array(get_prop(map, "repeatL")),
        cast_enum(get_prop(map, "bfTiles"), "bfTiles", "Number"),
        cast_enum(get_prop(map, "rnd"), "rnd", "Number"),
        cast_enum(get_prop(map, "ptPos"), "ptPos", "Number"),
        as_string_array(get_prop(map, "tags")),
        is_vanilla)

parse_tile_info(cs, is_vanilla) == TileInfoOfMap(PropMap(cs, EmptyMap), is_vanilla)

----------------------------------------------------------------------------
(* Lines of an init document.  A line is kept by what the code reads of    *)
(* it: whether it is blank, starts with "--" or "-[", whether              *)
(* REGEX_CATEGORY matches and what it captures (nm, colstr), what          *)
(* REGEX_CATEGORY_INDEX captures at its end (marker), and the captures of  *)
(* REGEX_PROPERTIES (caps).                                                *)

Line(kind, matches, nm, colstr, marker, cs) ==
    [kind |-> kind, matches |-> matches, nm |-> nm, colstr |-> colstr,
     marker |-> marker, caps |-> cs]

\* the filter of the loop: !line.starts_with("--") && !line.trim().is_empty()
Filtered(l) == l.kind \in {"blank", "comment"}

\* line.starts_with("-[")
IsHeaderLine(l) == l.kind = "header"

----------------------------------------------------------------------------
(* TileCategory, TileInfo equality and the ordering pass of TileInit.      *)

\* TileCategory::new_main: an enabled category with no subfolder and no tiles
new_main(name, color, index) ==
    [enabled |-> TRUE, subfolder |-> None, name |-> name, color |-> color,
     tiles |-> <<>>, index |-> index]

\* PartialEq of TileCategory: every field matches
CatEq(a, b) == a = b

\* PartialEq of TileInfo: every field matches
TileEq(a, b) == a = b

\* Vec::contains
ContainsCat(cats, c) == \E i \in 1..Len(cats) : CatEq(cats[i], c)
ContainsTile(tiles, t) == \E i \in 1..Len(tiles) : TileEq(tiles[i], t)

\* Iterator::position: the first index (from 1) of an equal tile
PositionTile(tiles, t) ==
    CHOOSE i \in 1..Len(tiles) :
        /\ TileEq(tiles[i], t)
        /\ \A j \in 1..(i - 1) : ~TileEq(tiles[j], t)

\* insert c behind every category whose index is not greater (a stable sort)
RECURSIVE InsertByIndex(_, _)
InsertByIndex(sorted, c) ==
    IF sorted = <<>> THEN <<c>>
    ELSE IF Head(sorted).index <= c.index
         THEN <<Head(sorted)>> \o InsertByIndex(Tail(sorted), c)
         ELSE <<c>> \o sorted

RECURSIVE SortByIndex(_)
SortByIndex(cats) ==
    IF cats = <<>> THEN <<>>
    ELSE InsertByIndex(SortByIndex(SubSeq(cats, 1, Len(cats) - 1)), cats[Len(cats)])

\* TileInit::sort_and_normalize_categories: order by ordinal, then every
\* category takes its position as its ordinal
sort_and_normalize_categories(cats) ==
    LET sorted == SortByIndex(cats)
    IN [i \in 1..Len(sorted) |-> [sorted[i] EXCEPT !.index = i - 1]]

----------------------------------------------------------------------------
(* parse_category_header.                                                  *)

RECURSIVE FilterMapU8(_)
FilterMapU8(pieces) ==
    IF pieces = <<>> THEN <<>>
    ELSE ItemIfOk(ParseU8(Head(pieces))) \o FilterMapU8(Tail(pieces))

\* col.get(i).unwrap_or(&d)
GetOr(xs, i, d) == IF i <= Len(xs) THEN xs[i] ELSE d

\* caps[1].parse::<usize>(): digits only; the model's integers end at 2^31 - 1
ParseUsize(s) == Digits(s, FALSE, 0, I32Max)

UnwrapOr(r, d) == IF r.ok THEN r.val ELSE d

\* the first three channels, each its default when it is missing
Channels(col, d1, d2, d3) == <<GetOr(col, 1, d1), GetOr(col, 2, d2), GetOr(col, 3, d3)>>

\* the index a captured marker gives, d when it does not parse
MarkerIndex(marker, d) == UnwrapOr(ParseUsize(marker), d)

parse_category_header(l) ==
    IF l.matches
    THEN Ok(new_main(l.nm,
                     Channels(FilterMapU8(SplitCommas(l.colstr)), 0, 0, 0),
                     IF l.marker.some THEN MarkerIndex(l.marker.val, 0) ELSE 0))
    ELSE Err(Todo)

----------------------------------------------------------------------------
(* parse_tile_init: the scan of one line and the end of the input.  The    *)
(* state of the scan is st = [current_category, categories, errored_lines].*)

ErrorReport(l, e) == [line |-> l, err |-> e]

\* the for loop over additional_categories: the first equal one gives its
\* subfolder and tiles
RECURSIVE AdoptFrom(_, _)
AdoptFrom(additional, newcat) ==
    IF additional = <<>> THEN newcat
    ELSE IF CatEq(Head(additional), newcat)
         THEN [newcat EXCEPT !.subfolder = Head(additional).subfolder,
                             !.tiles = Head(additional).tiles]
         ELSE AdoptFrom(Tail(additional), newcat)

\* MatchNewCategory closing the current category on a rejected header too
MatchNewCategoryClosing(st, additional, l, maybe_new_category) ==
    IF maybe_new_category.ok
    THEN [current_category |-> Some(AdoptFrom(additional, maybe_new_category.val)),
          categories |-> IF st.current_category.some
                         THEN Append(st.categories, st.current_category.val)
                         ELSE st.categories,
          errored_lines |-> st.errored_lines]
    ELSE [current_category |-> None,
          categories |-> IF st.current_category.some
                         THEN Append(st.categories, st.current_category.val)
                         ELSE st.categories,
          errored_lines |-> Append(st.errored_lines,
                                   ErrorReport(l, maybe_new_category.err))]

\* match maybe_new_category of a line starting with "-["
MatchNewCategory(st, additional, l, maybe_new_category) ==
    IF maybe_new_category.ok
    THEN [current_category |-> Some(AdoptFrom(additional, maybe_new_category.val)),
          categories |-> IF st.current_category.some
                         THEN Append(st.categories, st.current_category.val)
                         ELSE st.categories,
          errored_lines |-> st.errored_lines]
    ELSE [st EXCEPT !.errored_lines =
              Append(@, ErrorReport(l, maybe_new_category.err))]

\* a line starting with "-["
OnHeaderLine(st, additional, l) ==
    MatchNewCategory(st, additional, l, parse_category_header(l))

\* PutTile inserting a new tile in front
PutTileInFront(tiles, new_item) ==
    IF ContainsTile(tiles, new_item)
    THEN [tiles EXCEPT ![PositionTile(tiles, new_item)] = new_item]
    ELSE <<new_item>> \o tiles

\* the tile replaces the first equal tile of the category, or is pushed
PutTile(tiles, new_item) ==
    IF ContainsTile(tiles, new_item)
    THEN [tiles EXCEPT ![PositionTile(tiles, new_item)] = new_item]
    ELSE Append(tiles, new_item)

\* MatchNewItem reporting NoCategory for a record that has no category to go to
MatchNewItemNoCategory(st, l, maybe_new_item) ==
    IF maybe_new_item.ok
    THEN IF st.current_category.some
         THEN [st EXCEPT !.current_category.val.tiles =
                   PutTile(@, maybe_new_item.tile)]
         ELSE [st EXCEPT !.errored_lines =
                   Append(@, ErrorReport(l, [kind |-> "NoCategory", key |-> "",
                                             expected |-> "", got |-> NotParsed]))]
    ELSE [st EXCEPT !.errored_lines =
              Append(@, ErrorReport(l, maybe_new_item.err))]

\* MatchNewItem reporting a rejected record only when a category is current
MatchNewItemLoggingInCategory(st, l, maybe_new_item) ==
    IF st.current_category.some
    THEN IF maybe_new_item.ok
         THEN [st EXCEPT !.current_category.val.tiles =
                   PutTile(@, maybe_new_item.tile)]
         ELSE [st EXCEPT !.errored_lines =
                   Append(@, ErrorReport(l, maybe_new_item.err))]
    ELSE st

\* match maybe_new_item of any other line
MatchNewItem(st, l, maybe_new_item) ==
    IF maybe_new_item.ok
    THEN IF st.current_category.some
         THEN [st EXCEPT !.current_category.val.tiles =
                   PutTile(@, maybe_new_item.tile)]
         ELSE st
    ELSE [st EXCEPT !.errored_lines =
              Append(@, ErrorReport(l, maybe_new_item.err))]

\* any other line
OnTileLine(st, l) == MatchNewItem(st, l, parse_tile_info(l.caps, TRUE))

\* MergeAdditional without the filter
MergeAdditionalUnfiltered(clone, additional) == clone \o additional

\* categories.into_iter().chain(additional_categories.into_iter().filter(..))
MergeAdditional(clone, additional) ==
    clone \o SelectSeq(additional, LAMBDA cat : ~ContainsCat(clone, cat))

\* indices(&categories) counts from 0; an index of 0 becomes the position
AssignUnset(cats) ==
    [i \in 1..Len(cats) |->
        IF cats[i].index = 0 THEN [cats[i] EXCEPT !.index = i - 1] ELSE cats[i]]

\* ReturnTileInit without the ordering pass
ReturnTileInitUnordered(cats) == cats

\* tile_init.sort_and_normalize_categories(); Ok(tile_init)
ReturnTileInit(cats) == sort_and_normalize_categories(cats)

\* after the loop: [categories_clone, merged, categories] of the TileInit
\* returned; errored_lines is returned as it is
Returned(clone, merged_list, cats) ==
    [categories_clone |-> clone, merged |-> merged_list, categories |-> cats]

\* the chain of the clone and the additional categories, numbered and ordered
MergeAndReturn(clone, merged_list) ==
    Returned(clone, merged_list, ReturnTileInit(AssignUnset(merged_list)))

\* the last category is pushed and the rest runs on the clone
PushAndMerge(clone, additional) ==
    MergeAndReturn(clone, MergeAdditional(clone, additional))

\* AfterScan without the early return
AfterScanAlwaysMerging(st, additional) ==
    IF st.current_category.some
    THEN PushAndMerge(Append(st.categories, st.current_category.val), additional)
    ELSE PushAndMerge(st.categories, additional)

AfterScan(st, additional) ==
    IF st.current_category.some
    THEN PushAndMerge(Append(st.categories, st.current_category.val), additional)
    ELSE Returned(st.categories, st.categories, st.categories)

----------------------------------------------------------------------------
(* collect_categories_from_subfolders: the scan of one subfolder's         *)
(* init.txt.  The scan state is st = [category, errors].                   *)

DEFAULT_COLOR == <<"2", "5", "5", ",", "0", ",", "0">>

\* color.txt, or "255,0,0" when it cannot be read
SubfolderColor(color_contents) ==
    Channels(FilterMapU8(SplitCommas(OptionOr(color_contents, DEFAULT_COLOR))),
             255, 0, 0)

\* the category before the scan: disabled, named after the directory
SubfolderCategory(name, color_contents) ==
    [new_main(name, SubfolderColor(color_contents), 0)
        EXCEPT !.enabled = FALSE, !.subfolder = Some(name)]

\* one line of the scan; category_found stays false
SubfolderHeader(st, l, maybe_new_category) ==
    IF maybe_new_category.ok
    THEN [st EXCEPT !.category.name = maybe_new_category.val.name,
                    !.category.color = maybe_new_category.val.color]
    ELSE [st EXCEPT !.errors = Append(@, ErrorReport(l, maybe_new_category.err))]

SubfolderItem(st, l, maybe_new_item) ==
    IF maybe_new_item.ok
    THEN [st EXCEPT !.category.tiles = Append(@, maybe_new_item.tile)]
    ELSE [st EXCEPT !.errors = Append(@, ErrorReport(l, maybe_new_item.err))]

OnSubfolderLine(st, l) ==
    IF l.marker.some
    THEN [st EXCEPT !.category.index = MarkerIndex(l.marker.val, 1)]
    ELSE IF IsHeaderLine(l)
    THEN SubfolderHeader(st, l, parse_category_header(l))
    ELSE SubfolderItem(st, l, parse_tile_info(l.caps, TRUE))

RECURSIVE ScanSubfolder(_, _)
ScanSubfolder(st, contents) ==
    IF contents = <<>> THEN st
    ELSE ScanSubfolder(IF Filtered(Head(contents)) THEN st
                       ELSE OnSubfolderLine(st, Head(contents)),
                       Tail(contents))

\* the (category, errors) pair of one subfolder
CollectSubfolder(name, color_contents, contents) ==
    ScanSubfolder([category |-> SubfolderCategory(name, color_contents),
                   errors |-> <<>>], contents)

----------------------------------------------------------------------------
(* Inputs of the value parser.                                             *)

TextChars == {"[", "]", QUOTE, ",", " ", "1", "-", "x"}
PointChars == {"1", ",", " ", "-", "x"}

SeqsUpTo(S, n) == UNION {[1..k -> S] : k \in 0..n}

ParseInputs ==
    SeqsUpTo(TextChars, MaxTextLen)
      \cup {POINT_OPEN \o s \o <<")">> : s \in SeqsUpTo(PointChars, MaxPointLen)}

----------------------------------------------------------------------------
(* Inputs of parse_tile_info: value texts REGEX_PROPERTIES can capture (a  *)
(* quoted string, a point, a bracketed list, digits).                      *)

Quoted(s) == <<QUOTE>> \o s \o <<QUOTE>>
V_X == Quoted(<<"x">>)
V_Y == Quoted(<<"y">>)
V_BOX == Quoted(<<"b", "o", "x">>)
V_ONE == <<"1">>
V_ZERO == <<"0">>
V_POINT == POINT_OPEN \o <<"1", ",", "1", ")">>
V_LIST == <<"[", "1", ",", " ", "1", "2", "]">>
V_TAGS == <<"[">> \o V_X \o <<"]">>

KeyOrder == <<"nm", "sz", "specs", "specs2", "tp", "repeatL", "bfTiles", "rnd",
              "ptPos", "tags">>

RequiredChoices ==
    [nm : {Some(V_X), Some(V_ONE), None},
     sz : {Some(V_POINT), Some(V_ONE), None},
     specs : {Some(V_LIST), Some(V_ONE), None},
     tp : {Some(V_BOX), Some(V_X), Some(V_ONE), None},
     bfTiles : {Some(V_ONE), Some(V_X), None},
     ptPos : {Some(V_ONE), Some(V_X), None}]

OptionalChoices ==
    {[specs2 |-> None, repeatL |-> None, rnd |-> None, tags |-> None],
     [specs2 |-> Some(V_ZERO), repeatL |-> Some(V_LIST), rnd |-> Some(V_ONE),
      tags |-> Some(V_TAGS)],
     [specs2 |-> Some(V_LIST), repeatL |-> Some(V_ONE), rnd |-> Some(V_X),
      tags |-> Some(V_ONE)]}

\* a key given a second time, behind the others
RepeatedChoices ==
    {<<>>, <<[key |-> "nm", val |-> V_ONE]>>, <<[key |-> "nm", val |-> V_Y]>>}

Capture(k, v) == IF v.some THEN <<[key |-> k, val |-> v.val]>> ELSE <<>>

RECURSIVE CapsOf(_, _, _)
CapsOf(req, opt, i) ==
    IF i > Len(KeyOrder) THEN <<>>
    ELSE Capture(KeyOrder[i], IF KeyOrder[i] \in DOMAIN req THEN req[KeyOrder[i]]
                              ELSE opt[KeyOrder[i]])
         \o CapsOf(req, opt, i + 1)

TileInputs ==
    {CapsOf(req, opt, 1) \o rep :
        req \in RequiredChoices, opt \in OptionalChoices, rep \in RepeatedChoices}

----------------------------------------------------------------------------
(* Inputs of parse_tile_init: lines, documents and additional categories.  *)

GoodCaps(nm) ==
    <<[key |-> "nm", val |-> nm], [key |-> "sz", val |-> V_POINT],
      [key |-> "specs", val |-> V_LIST], [key |-> "tp", val |-> V_BOX],
      [key |-> "bfTiles", val |-> V_ONE], [key |-> "ptPos", val |-> V_ONE]>>

BlankLine == Line("blank", FALSE, <<>>, <<>>, None, <<>>)
CommentLine == Line("comment", FALSE, <<>>, <<>>, None, <<>>)
\* -["A", color(1,2,3)]
HeaderA == Line("header", TRUE, <<"A">>, <<"1", ",", "2", ",", "3">>, None, <<>>)
\* -["B", color(1)]--CATEGORY_INDEX:2
HeaderB == Line("header", TRUE, <<"B">>, <<"1">>, Some(<<"2">>), <<>>)
\* -[ and nothing REGEX_CATEGORY matches
HeaderBad == Line("header", FALSE, <<>>, <<>>, None, <<>>)
TileX == Line("tile", FALSE, <<>>, <<>>, None, GoodCaps(V_X))
TileY == Line("tile", FALSE, <<>>, <<>>, None, GoodCaps(V_Y))
\* a record with no #nm
TileBad == Line("tile", FALSE, <<>>, <<>>, None, Tail(GoodCaps(V_X)))

Lines == {BlankLine, CommentLine, HeaderA, HeaderB, HeaderBad, TileX, TileY, TileBad}

Docs == SeqsUpTo(Lines, MaxLines)

\* subfolder A: color.txt "1,2,3", init.txt with the record x twice
SubfolderA ==
    CollectSubfolder(<<"A">>, Some(<<"1", ",", "2", ",", "3">>), <<TileX, TileX>>).category
\* subfolder C: no color.txt, init.txt with a marker line and the record y
SubfolderC == CollectSubfolder(<<"C">>, None, <<HeaderB, TileY>>).category
\* a category a caller built as the header of A builds it
PlainA == new_main(<<"A">>, <<1, 2, 3>>, 0)

ChoicesOf(a, c, p) == {<<>>, <<a>>, <<p>>, <<c>>, <<a, c>>, <<p, a>>, <<a, a>>}

AdditionalChoices == ChoicesOf(SubfolderA, SubfolderC, PlainA)

----------------------------------------------------------------------------
(* The calls.  Each specification studies one function; the variables of   *)
(* the others stay idle.                                                   *)

NoResult == [ok |-> FALSE, tile |-> NoTile, err |-> NoError]

ParseIdle == text = <<>> /\ parsed = NotParsed
TileIdle == caps = <<>> /\ from_vanilla = FALSE /\ tile_result = NoResult
InitIdle ==
    /\ doc = <<>> /\ pos = 0 /\ additional_categories = <<>>
    /\ current_category = None /\ categories = <<>> /\ errored_lines = <<>>
    /\ categories_clone = <<>> /\ merged = <<>>
NoCategory == new_main(<<>>, <<0, 0, 0>>, 0)
CollectIdle ==
    /\ subinit = <<>> /\ subcolor = None /\ subpos = 0
    /\ category = NoCategory /\ errors = <<>>

(* LingoData::parse called on one text. *)

InitParse ==
    /\ pc = "start"
    /\ text \in ParseInputs
    /\ parsed = NotParsed
    /\ TileIdle /\ InitIdle /\ CollectIdle

CallParse ==
    /\ pc = "start"
    /\ parsed' = parse(text)
    /\ pc' = "done"
    /\ UNCHANGED <<text, tileVars, initVars, collectVars>>

NextParse == CallParse

SpecParse == InitParse /\ [][NextParse]_vars

(* parse_tile_info called on one line. *)

InitTile ==
    /\ pc = "start"
    /\ caps \in TileInputs
    /\ from_vanilla \in BOOLEAN
    /\ tile_result = NoResult
    /\ ParseIdle /\ InitIdle /\ CollectIdle

CallParseTileInfo ==
    /\ pc = "start"
    /\ tile_result' = parse_tile_info(caps, from_vanilla)
    /\ pc' = "done"
    /\ UNCHANGED <<caps, from_vanilla, parseVars, initVars, collectVars>>

NextTile == CallParseTileInfo

SpecTile == InitTile /\ [][NextTile]_vars

(* parse_tile_init called on one document: one step for each line of the   *)
(* loop, and one for everything behind the loop.                           *)

Init ==
    /\ pc = "scan"
    /\ doc \in Docs
    /\ pos = 0
    /\ additional_categories \in AdditionalChoices
    /\ current_category = None
    /\ categories = <<>>
    /\ errored_lines = <<>>
    /\ categories_clone = <<>>
    /\ merged = <<>>
    /\ ParseIdle /\ TileIdle /\ CollectIdle

ScanState ==
    [current_category |-> current_category, categories |-> categories,
     errored_lines |-> errored_lines]

SetScanState(st) ==
    /\ current_category' = st.current_category
    /\ categories' = st.categories
    /\ errored_lines' = st.errored_lines

NextLine == doc[pos + 1]

SkipLine ==
    /\ pc = "scan" /\ pos < Len(doc)
    /\ Filtered(NextLine)
    /\ pos' = pos + 1
    /\ UNCHANGED <<pc, doc, additional_categories, current_category, categories,
                   errored_lines, categories_clone, merged, parseVars, tileVars,
                   collectVars>>

HeaderLine ==
    /\ pc = "scan" /\ pos < Len(doc)
    /\ ~Filtered(NextLine) /\ IsHeaderLine(NextLine)
    /\ SetScanState(OnHeaderLine(ScanState, additional_categories, NextLine))
    /\ pos' = pos + 1
    /\ UNCHANGED <<pc, doc, additional_categories, categories_clone, merged,
                   parseVars, tileVars, collectVars>>

TileLine ==
    /\ pc = "scan" /\ pos < Len(doc)
    /\ ~Filtered(NextLine) /\ ~IsHeaderLine(NextLine)
    /\ SetScanState(OnTileLine(ScanState, NextLine))
    /\ pos' = pos + 1
    /\ UNCHANGED <<pc, doc, additional_categories, categories_clone, merged,
                   parseVars, tileVars, collectVars>>

EndOfInput ==
    /\ pc = "scan" /\ pos = Len(doc)
    /\ LET out == AfterScan(ScanState, additional_categories)
       IN /\ categories_clone' = out.categories_clone
          /\ merged' = out.merged
          /\ categories' = out.categories
    /\ pc' = "done"
    /\ UNCHANGED <<doc, pos, additional_categories, current_category,
                   errored_lines, parseVars, tileVars, collectVars>>

Next == SkipLine \/ HeaderLine \/ TileLine \/ EndOfInput

Spec == Init /\ [][Next]_vars

(* collect_categories_from_subfolders on one subfolder that has an         *)
(* init.txt: one step for each line of the scan, and one for the return.   *)

\* --CATEGORY_INDEX:3 on a line of its own
MarkerLine == Line("comment", FALSE, <<>>, <<>>, Some(<<"3">>), <<>>)
\* a tile record followed by --CATEGORY_INDEX:2
TileMarked == Line("tile", FALSE, <<>>, <<>>, Some(<<"2">>), GoodCaps(V_Y))

SubLines ==
    {BlankLine, MarkerLine, HeaderA, HeaderB, HeaderBad, TileX, TileBad, TileMarked}

SubDocs == SeqsUpTo(SubLines, MaxLines)

\* the directory's name
DirName == <<"C">>

ColorFiles == {None, Some(<<"4", ",", "5", ",", "6">>)}

InitCollect ==
    /\ pc = "scan"
    /\ subinit \in SubDocs
    /\ subcolor \in ColorFiles
    /\ subpos = 0
    /\ category = SubfolderCategory(DirName, subcolor)
    /\ errors = <<>>
    /\ ParseIdle /\ TileIdle /\ InitIdle

NextSubLine == subinit[subpos + 1]

SubState == [category |-> category, errors |-> errors]

SetSubState(st) == category' = st.category /\ errors' = st.errors

SubSkipLine ==
    /\ pc = "scan" /\ subpos < Len(subinit)
    /\ Filtered(NextSubLine)
    /\ subpos' = subpos + 1
    /\ UNCHANGED <<pc, subinit, subcolor, category, errors, parseVars, tileVars,
                   initVars>>

SubMarkerLine ==
    /\ pc = "scan" /\ subpos < Len(subinit)
    /\ ~Filtered(NextSubLine) /\ NextSubLine.marker.some
    /\ SetSubState(OnSubfolderLine(SubState, NextSubLine))
    /\ subpos' = subpos + 1
    /\ UNCHANGED <<pc, subinit, subcolor, parseVars, tileVars, initVars>>

SubHeaderLine ==
    /\ pc = "scan" /\ subpos < Len(subinit)
    /\ ~Filtered(NextSubLine) /\ ~NextSubLine.marker.some
    /\ IsHeaderLine(NextSubLine)
    /\ SetSubState(OnSubfolderLine(SubState, NextSubLine))
    /\ subpos' = subpos + 1
    /\ UNCHANGED <<pc, subinit, subcolor, parseVars, tileVars, initVars>>

SubItemLine ==
    /\ pc = "scan" /\ subpos < Len(subinit)
    /\ ~Filtered(NextSubLine) /\ ~NextSubLine.marker.some
    /\ ~IsHeaderLine(NextSubLine)
    /\ SetSubState(OnSubfolderLine(SubState, NextSubLine))
    /\ subpos' = subpos + 1
    /\ UNCHANGED <<pc, subinit, subcolor, parseVars, tileVars, initVars>>

SubReturn ==
    /\ pc = "scan" /\ subpos = Len(subinit)
    /\ pc' = "done"
    /\ UNCHANGED <<collectVars, parseVars, tileVars, initVars>>

NextCollect ==
    SubSkipLine \/ SubMarkerLine \/ SubHeaderLine \/ SubItemLine \/ SubReturn

SpecCollect == InitCollect /\ [][NextCollect]_vars

----------------------------------------------------------------------------
(* The claims.                                                             *)

ValueTags == {"Array", "Point", "String", "Number", "InvalidOrNull"}

\* C1: LingoData::parse is total: on every text, the empty one and a single
\* double quote included, it returns a List, Point, Text, Integer or the
\* Unparsed trimmed text, and never aborts.
C1_ParseTotal ==
    pc = "done" =>
        /\ parsed.tag \in ValueTags
        /\ parsed.tag = "InvalidOrNull" => parsed.str = Trim(text)

\* the step of the loop that takes a tile-record line while no header has parsed
TileLineBeforeHeader ==
    /\ pc = "scan" /\ pos < Len(doc) /\ pos' = pos + 1
    /\ ~Filtered(NextLine) /\ ~IsHeaderLine(NextLine)
    /\ ~current_category.some

\* C2 as stated: every tile-record line taken before any header has parsed is
\* dropped silently: no tile in any category and no entry in errored_lines.
C2_EveryEarlyTileLineSilent ==
    [][TileLineBeforeHeader =>
          /\ current_category' = current_category
          /\ categories' = categories
          /\ errored_lines' = errored_lines]_vars

\* C2 amended: a tile-record line taken before any header has parsed adds no
\* tile to any category; it adds no entry to errored_lines when
\* parse_tile_info accepts it, and exactly its (line, error) pair when
\* parse_tile_info rejects it.
C2_EarlyTileLine ==
    [][TileLineBeforeHeader =>
          /\ current_category' = current_category
          /\ categories' = categories
          /\ errored_lines' =
                IF parse_tile_info(NextLine.caps, TRUE).ok THEN errored_lines
                ELSE Append(errored_lines,
                            ErrorReport(NextLine,
                                        parse_tile_info(NextLine.caps, TRUE).err))]_vars

\* a record parse_tile_info accepts has just been taken with no category to
\* go to, and nothing is logged
C2_Witness ==
    /\ pc = "scan" /\ pos >= 1
    /\ doc[pos].kind = "tile" /\ parse_tile_info(doc[pos].caps, TRUE).ok
    /\ ~current_category.some /\ categories = <<>> /\ errored_lines = <<>>

\* the step of the loop that takes a header line parse_category_header rejects
RejectedHeaderLine ==
    /\ pc = "scan" /\ pos < Len(doc) /\ pos' = pos + 1
    /\ ~Filtered(NextLine) /\ IsHeaderLine(NextLine)
    /\ ~parse_category_header(NextLine).ok

\* C3: a line starting with "-[" that parse_category_header rejects appends
\* exactly one (line, error) pair to errored_lines and leaves the current
\* category (or its absence), its tiles and the finalized categories as they were.
C3_RejectedHeader ==
    [][RejectedHeaderLine =>
          /\ errored_lines' =
                Append(errored_lines,
                       ErrorReport(NextLine, parse_category_header(NextLine).err))
          /\ current_category' = current_category
          /\ categories' = categories]_vars

\* a rejected header has just been taken inside a category that has a tile
C3_Witness ==
    /\ pc = "scan" /\ pos >= 1
    /\ IsHeaderLine(doc[pos]) /\ ~parse_category_header(doc[pos]).ok
    /\ current_category.some /\ current_category.val.tiles # <<>>
    /\ errored_lines # <<>> /\ errored_lines[Len(errored_lines)].line = doc[pos]


\* the positions of a sequence
Positions(xs) == 1..Len(xs)

\* C5: no two categories of the list parse_tile_init returns have the same
\* index, also when explicit ordinals coincide with the positions given to
\* categories whose ordinal was 0.
C5_DistinctOrdinals ==
    pc = "done" =>
        \A i, j \in Positions(categories) :
            i # j => categories[i].index # categories[j].index

\* the call has returned three categories or more, and before the ordering
\* pass an explicit ordinal coincided with a position given to an unset one
C5_Witness ==
    /\ pc = "done" /\ Len(categories) >= 3
    /\ \E i, j \in Positions(merged) :
          /\ i # j
          /\ merged[i].index # 0 /\ merged[j].index = 0
          /\ AssignUnset(merged)[i].index = AssignUnset(merged)[j].index

\* the header lines of the document, and the tile-record lines
HeaderPositions == {k \in Positions(doc) : IsHeaderLine(doc[k])}
TilePositions == {k \in Positions(doc) : doc[k].kind = "tile"}

\* the tile a tile-record line parses to
TileAt(k) == parse_tile_info(doc[k].caps, TRUE).tile

\* the line behind the last line of the category that header k opens
EndOfCategory(k) ==
    IF \E j \in HeaderPositions : j > k
    THEN CHOOSE j \in HeaderPositions :
             j > k /\ \A h \in HeaderPositions : h > k => j <= h
    ELSE Len(doc) + 1

IsTileLine(l) == l.kind = "tile"

TilesOf(ls) == [i \in Positions(ls) |-> parse_tile_info(ls[i].caps, TRUE).tile]

\* the tiles of the tile-record lines between header k and the next header
TilesBetween(k) ==
    TilesOf(SelectSeq(SubSeq(doc, k + 1, EndOfCategory(k) - 1), IsTileLine))

\* every header line parses, every tile-record line parses, the tiles are
\* pairwise distinct and there are no additional categories
C6_Precondition ==
    /\ additional_categories = <<>>
    /\ \A k \in HeaderPositions : parse_category_header(doc[k]).ok
    /\ \A k \in TilePositions : parse_tile_info(doc[k].caps, TRUE).ok
    /\ \A i, j \in TilePositions : i # j => ~TileEq(TileAt(i), TileAt(j))

\* category c is the one header line k opens
OpenedBy(c, k) ==
    /\ c.name = parse_category_header(doc[k]).val.name
    /\ c.color = parse_category_header(doc[k]).val.color
    /\ c.tiles = TilesBetween(k)

\* C6: for a document whose header lines all parse and whose tile-record lines
\* all parse to pairwise distinct tiles, with no additional categories, the
\* result has exactly one category for each header line, and its tiles are the
\* tiles of the lines between that header and the next, in encounter order.
C6_OneCategoryPerHeader ==
    (pc = "done" /\ C6_Precondition) =>
        /\ Len(categories) = Cardinality(HeaderPositions)
        /\ \E f \in [HeaderPositions -> Positions(categories)] :
              /\ \A h, k \in HeaderPositions : h # k => f[h] # f[k]
              /\ \A k \in HeaderPositions : OpenedBy(categories[f[k]], k)

\* one header followed by two tile-record lines has given one category with
\* those two tiles
C6_Witness ==
    /\ pc = "done" /\ C6_Precondition
    /\ Len(categories) = 1 /\ Len(categories[1].tiles) = 2

\* no header line of the document parses
NoHeaderParses == \A k \in HeaderPositions : ~parse_category_header(doc[k]).ok

\* the lines whose parse fails, and what each logs
FailsToParse(l) ==
    /\ ~Filtered(l)
    /\ IF IsHeaderLine(l) THEN ~parse_category_header(l).ok
       ELSE ~parse_tile_info(l.caps, TRUE).ok

LoggedFor(l) ==
    ErrorReport(l, IF IsHeaderLine(l) THEN parse_category_header(l).err
                   ELSE parse_tile_info(l.caps, TRUE).err)

ReportsOf(ls) == [i \in Positions(ls) |-> LoggedFor(ls[i])]

\* C7: if no header line of the document parses, parse_tile_init returns an
\* empty category list and all logged errors, whatever additional categories
\* were supplied: they are not merged and nothing is normalized.
C7_NoHeaderShortCircuit ==
    (pc = "done" /\ NoHeaderParses) =>
        /\ categories = <<>>
        /\ errored_lines = ReportsOf(SelectSeq(doc, FailsToParse))

\* the call has returned from a document without a parsed header, with
\* additional categories supplied and errors logged
C7_Witness ==
    /\ pc = "done" /\ NoHeaderParses
    /\ additional_categories # <<>> /\ errored_lines # <<>>
    /\ categories = <<>>


\* the value get_prop! gives for key k of the line
PropValue(k) == get_prop(PropMap(caps, EmptyMap), k)

\* the variant each required key is narrowed to
ExpectedVariant(k) ==
    CASE k = "nm" -> "String" [] k = "sz" -> "Point" [] k = "tp" -> "String"
      [] k = "bfTiles" -> "Number" [] k = "ptPos" -> "Number"
      [] k = "specs" -> "Array"

RequiredKeys == {"nm", "sz", "tp", "bfTiles", "ptPos", "specs"}

\* key k is there and its value is of the expected variant
Narrows(k) == PropValue(k).tag = ExpectedVariant(k)

\* the order in which the struct literal of parse_tile_info reaches the keys
EvaluationOrder == <<"nm", "sz", "specs", "tp", "bfTiles", "ptPos">>

FirstFailing ==
    EvaluationOrder[CHOOSE i \in Positions(EvaluationOrder) :
                        /\ ~Narrows(EvaluationOrder[i])
                        /\ \A j \in 1..(i - 1) : Narrows(EvaluationOrder[j])]

\* tp narrows to a text that is no tile type
UnknownTileType == Narrows("tp") /\ ~TileType_from_string(PropValue("tp").str).ok

\* C8 as stated, on the lines whose tile type is known or not a text: when a
\* required key is missing or does not narrow, the call returns TypeMismatch
\* naming a failing key and produces no TileInfo.
C8_AlwaysTypeMismatch ==
    (pc = "done" /\ ~UnknownTileType /\ \E k \in RequiredKeys : ~Narrows(k)) =>
        /\ ~tile_result.ok /\ tile_result.tile = NoTile
        /\ tile_result.err.kind = "TypeMismatch"
        /\ tile_result.err.key \in RequiredKeys /\ ~Narrows(tile_result.err.key)

\* C8 amended: when a required key is missing or does not narrow, the call
\* returns an error and no TileInfo; the error is that of the first failing
\* step in the order nm, sz, specs, tp, tile type, bfTiles, ptPos: TypeMismatch
\* with the key, the expected variant and the value for nm, sz, tp, bfTiles
\* and ptPos, and DataConvertFailed, which names no key, for specs.
C8_FirstFailingStep ==
    (pc = "done" /\ \E k \in RequiredKeys : ~Narrows(k)) =>
        /\ ~tile_result.ok /\ tile_result.tile = NoTile
        /\ tile_result.err =
             IF FirstFailing = "specs"
             THEN DataConvertFailed("tilecellArray", PropValue("specs"))
             ELSE IF FirstFailing \in {"bfTiles", "ptPos"} /\ UnknownTileType
             THEN TileType_from_string(PropValue("tp").str).err
             ELSE TypeMismatch(FirstFailing, ExpectedVariant(FirstFailing),
                               PropValue(FirstFailing))

\* specs and tp both fail behind a good nm and sz, and the error is that of specs
C8_Witness ==
    /\ pc = "done"
    /\ Narrows("nm") /\ Narrows("sz") /\ ~Narrows("specs") /\ ~Narrows("tp")
    /\ ~tile_result.ok /\ tile_result.err.kind = "DataConvertFailed"

\* how often category c is in cats, as it is and but for its ordinal
CountIn(cats, c) == Cardinality({i \in Positions(cats) : CatEq(cats[i], c)})

WithoutIndex(c) == [c EXCEPT !.index = 0]

CountButIndex(cats, c) ==
    Cardinality({i \in Positions(cats) : WithoutIndex(cats[i]) = WithoutIndex(c)})

\* the categories appended behind the finalized ones
Appended == SubSeq(merged, Len(categories_clone) + 1, Len(merged))

Supplied == {additional_categories[i] : i \in Positions(additional_categories)}

\* C9 as stated: when a header parsed, every additional category that equals
\* no finalized category is in the result exactly once, with its original
\* ordinal, and one that equals a finalized category is not appended.
C9_KeepsOrdinal ==
    (pc = "done" /\ current_category.some) =>
        \A a \in Supplied :
            IF ContainsCat(categories_clone, a) THEN CountIn(Appended, a) = 0
            ELSE CountIn(categories, a) = 1

\* C9 amended: when a header parsed, every additional category that equals no
\* finalized category is appended to the merged list behind the finalized
\* categories, once for each time it was supplied, in the supplied order and
\* with its original ordinal; one that equals a finalized category is not
\* appended.  The returned list holds the merged categories with every field
\* but the ordinal, which the numbering of unset ordinals and the ordering
\* pass replace.
C9_PostScanMerge ==
    (pc = "done" /\ current_category.some) =>
        /\ SubSeq(merged, 1, Len(categories_clone)) = categories_clone
        /\ \A a \in Supplied :
              CountIn(Appended, a) =
                  IF ContainsCat(categories_clone, a) THEN 0
                  ELSE CountIn(additional_categories, a)
        /\ \A i \in Positions(Appended) : Appended[i] \in Supplied
        /\ \A i, j \in Positions(Appended) :
              i < j =>
                  \E m, n \in Positions(additional_categories) :
                      /\ m < n
                      /\ additional_categories[m] = Appended[i]
                      /\ additional_categories[n] = Appended[j]
        /\ Len(categories) = Len(merged)
        /\ \A i \in Positions(merged) :
              CountButIndex(categories, merged[i]) = CountButIndex(merged, merged[i])

\* one additional category equals a finalized one and another, whose ordinal
\* is unset, does not and is appended
C9_Witness ==
    /\ pc = "done" /\ current_category.some
    /\ \E a, b \in Supplied :
          /\ ContainsCat(categories_clone, a)
          /\ ~ContainsCat(categories_clone, b) /\ b.index = 0
          /\ CountIn(Appended, b) = 1 /\ CountIn(categories, b) = 0

Consumed == SubSeq(subinit, 1, subpos)

\* the consumed header lines that parse
ParsedHeaders == SelectSeq(Consumed, LAMBDA l : IsHeaderLine(l) /\ parse_category_header(l).ok)

\* a marker on a line starting with "--" is filtered with the line; such
\* lines are left out here
Marked == SelectSeq(Consumed, LAMBDA l : ~Filtered(l) /\ l.marker.some)

Last(xs) == xs[Len(xs)]

\* C11: throughout the collector's scan of one init document the category's
\* name and color are those of the last header line that parsed so far, a
\* header line with a trailing --CATEGORY_INDEX:<n> marker included, and its
\* ordinal is the n of the last marker so far, on the lines the scan reads;
\* so they are after the scan.
C11_HeadersAndMarkers ==
    /\ ParsedHeaders # <<>> =>
          /\ category.name = parse_category_header(Last(ParsedHeaders)).val.name
          /\ category.color = parse_category_header(Last(ParsedHeaders)).val.color
    /\ Marked # <<>> => category.index = MarkerIndex(Last(Marked).marker.val, 0)


\* a is the beginning of b
IsPrefix(a, b) == Len(a) <= Len(b) /\ SubSeq(b, 1, Len(a)) = a

\* the lines of the document the loop has consumed
Scanned == SubSeq(doc, 1, pos)

\* C12: in parse_tile_init no step removes or changes an entry of
\* errored_lines, and errored_lines always holds exactly one entry, in document
\* order, for each line consumed so far that is neither blank nor a comment and
\* whose header or tile-record parse failed, whether or not a category was
\* current, and none for any other line; so it does when the call returns.
C12_ErrorLogExact ==
    /\ [][IsPrefix(errored_lines, errored_lines')]_vars
    /\ [](errored_lines = ReportsOf(SelectSeq(Scanned, FailsToParse)))

\* the call has returned with a category; the first line was a rejected
\* record, logged with no category current, a later line is logged too, and
\* some line is not
C12_Witness ==
    /\ pc = "done" /\ current_category.some
    /\ ~IsHeaderLine(doc[1]) /\ FailsToParse(doc[1])
    /\ errored_lines[1] = LoggedFor(doc[1])
    /\ Len(errored_lines) >= 2 /\ Len(errored_lines) < Len(doc)

====
